---- MODULE Spec2Model ----
(***************************************************************************)
(* Swap-in path of the storage manager (src/src/store_swapin.cc):          *)
(* storeSwapInStart, storeSwapInFileClosed and storeSwapInFileNotify,      *)
(* together with the collaborators they call or are called by: the         *)
(* storage layer (storeOpen, the notify and close dispatch), the cbdata    *)
(* lock counts, the client read protocol and the swap-out state machine.   *)
(* The collaborators are not part of the three source files; they follow   *)
(* the written specification of the storage layer.                         *)
(* A second, independent part models the init/done lifecycle of the Basic  *)
(* authentication scheme (src/src/auth/basic/Config.cc).                   *)
(***************************************************************************)
EXTENDS Integers, Sequences, FiniteSets, TLC

\* ---------------------------------------------------------------- bounds
NumClients == 2
MaxHandles == 2
\* number of configuration operations applied to the Basic scheme
MaxAuthOps == 5

Clients == 1..NumClients
Handles == 1..MaxHandles
\* One entry: the swap-in path never relates two entries to each other.
Entries == {1}
FileNos == {0, 1}
DirNos == {0}
\* what a read handle can hold in sio->swap_filen and sio->swap_dirn when it
\* calls back: a locator, or the -1 of a handle that has none
SioFileNos == FileNos \cup {-1}
SioDirNos == DirNos \cup {-1}
SioLocators == (FileNos \X DirNos) \cup {<<-1, -1>>}
\* errflag values the storage layer reports: success, a negative and a
\* positive error code.
ErrFlags == {-1, 0, 1}
\* the ways a storeOpen call can end
OpenResults == {"open", "fail", "closed", "closed_null"}
\* what a client callback does: it returns, or it schedules the next read
STCBPlans == {"return"} \cup OpenResults
\* the plans that make a difference: all of them when a client callback can
\* be invoked, otherwise one
PlansWhen(invoked) == IF invoked THEN STCBPlans ELSE {"return"}

\* ------------------------------------------------------------- constants
NULL == 0
NOT_IN_MEMORY == "NOT_IN_MEMORY"
IN_MEMORY == "IN_MEMORY"
SWAPOUT_NONE == "SWAPOUT_NONE"
SWAPOUT_WRITING == "SWAPOUT_WRITING"
SWAPOUT_DONE == "SWAPOUT_DONE"
ENTRY_VALIDATED == "ENTRY_VALIDATED"
\* the two callbacks storeSwapInStart registers with storeOpen
CB_FileNotify == "storeSwapInFileNotify"
CB_FileClosed == "storeSwapInFileClosed"
\* the client's STCB function pointer (any non-NULL value)
STCB_fn == 1
\* a non-NULL wordlist
PROGRAM == 1
\* basicauthenticators == NULL, and a helper as its constructor leaves it
NoHelper == [allocated |-> FALSE, cmdline |-> NULL, running |-> FALSE]
NewHelper == [allocated |-> TRUE, cmdline |-> NULL, running |-> FALSE]

VARIABLES
    e,            \* StoreEntry objects: e[x] is a record of the entry's fields
    sc,           \* store_client objects
    sio,          \* storeIOState objects (swap-in read handles)
    locks,        \* cbdata lock count of every handle
    statCounter,  \* statCounter.swap.ins
    calls,        \* number of client callbacks (STCB) invoked so far
    aborted,      \* an assert() failed: the process is gone
    authbasic_initialised,  \* the static flag of auth/basic/Config.cc
    authenticateProgram,    \* the scheme's helper command line, or NULL
    basicauthenticators,    \* the helper object, or NULL
    authOps       \* the configuration operations applied so far

authvars == <<authbasic_initialised, authenticateProgram, basicauthenticators,
              authOps>>
vars == <<e, sc, sio, locks, statCounter, calls, aborted, authvars>>

EBIT_TEST(flags, bit) == bit \in flags

\* no client callback invoked (yet) by the handler that is running
NoCall == [sc |-> NULL, data |-> NULL, buf |-> NULL, errflag |-> 0,
           sc_callback |-> NULL, sc_swapin_sio |-> NULL]

\* The program state as one value, so that a handler and the calls it makes
\* compose; lastcall holds the arguments of the client callback the running
\* handler has invoked, stcb what the client callback does when it is invoked.
World == [e |-> e, sc |-> sc, sio |-> sio, locks |-> locks,
          statCounter |-> statCounter, calls |-> calls, lastcall |-> NoCall,
          stcb |-> "return", aborted |-> aborted]

\* assert(cond) failed: the state is left as it was at the assertion.
Abort(w) == [w EXCEPT !.aborted = TRUE]

FreeHandles(w) == {h \in Handles : w.sio[h].st = "free"}
OpenHandles(w) == {h \in Handles : w.sio[h].st = "open"}

NoSio == [st |-> "free", e |-> NULL, file_callback |-> "", callback |-> "",
          callback_data |-> NULL, swap_filen |-> -1, swap_dirn |-> -1]

\* a handle after its close callback: its memory is released
ClosedSio == [NoSio EXCEPT !.st = "closed"]

\* ------------------------------------------------------------ cbdata
cbdataLock(w, p) ==
    IF p = NULL THEN w ELSE [w EXCEPT !.locks[p] = @ + 1]

cbdataUnlock(w, p) ==
    IF p = NULL THEN w ELSE [w EXCEPT !.locks[p] = @ - 1]

\* ------------------------------------------------------------ the client
RECURSIVE storeSwapInStart(_, _, _)

\* The client's STCB, callback(callback_data, copy_buf, errflag): recorded
\* with the values sc->callback and sc->swapin_sio have at the moment of the
\* call. The callback either returns (w.stcb = "return") or schedules the
\* next read of the same client before it returns: the request becomes
\* pending and the swap-in handle is initiated, w.stcb telling how that
\* storeOpen ends.
InvokeSTCB(w, c, data, buf, errflag) ==
    LET w1 == [w EXCEPT !.calls = @ + 1,
                        !.lastcall = [sc |-> c, data |-> data, buf |-> buf,
                                      errflag |-> errflag,
                                      sc_callback |-> w.sc[c].callback,
                                      sc_swapin_sio |-> w.sc[c].swapin_sio],
                        !.stcb = "return"]
        w2 == [w1 EXCEPT !.sc[c].callback = STCB_fn]
    IN IF w.stcb = "return" THEN w1
       ELSE IF w2.sc[c].swapin_sio = NULL THEN storeSwapInStart(w2, c, w.stcb)
       ELSE w2

\* ------------------------------------------------------------ store_swapin.cc
\* storeSwapInFileClosed calling sc->callback without testing it.
storeSwapInFileClosed_NoCallbackTest(w, data, errflag, h) ==
    LET w1 == cbdataUnlock(w, h)
        w2 == [w1 EXCEPT !.sc[data].swapin_sio = NULL]
    IN IF ~(errflag <= 0) THEN Abort(w2)
       ELSE LET w3 == [w2 EXCEPT !.sc[data].callback = NULL]
                w4 == InvokeSTCB(w3, data, w3.sc[data].callback_data,
                                 w3.sc[data].copy_buf, errflag)
            IN [w4 EXCEPT !.statCounter = @ + 1]

\* storeSwapInFileClosed clearing sc->swapin_sio and sc->callback after the
\* client callback has returned instead of before it is invoked.
storeSwapInFileClosed_ClearsAfterCallback(w, data, errflag, h) ==
    LET w1 == cbdataUnlock(w, h)
        callback == w1.sc[data].callback
    IN IF callback # NULL
       THEN IF ~(errflag <= 0) THEN Abort(w1)
            ELSE LET w4 == InvokeSTCB(w1, data, w1.sc[data].callback_data,
                                      w1.sc[data].copy_buf, errflag)
                 IN [w4 EXCEPT !.sc[data].swapin_sio = NULL,
                               !.sc[data].callback = NULL,
                               !.statCounter = @ + 1]
       ELSE [w1 EXCEPT !.sc[data].swapin_sio = NULL, !.statCounter = @ + 1]

storeSwapInFileClosed(w, data, errflag, h) ==
    LET w1 == cbdataUnlock(w, h)
        w2 == [w1 EXCEPT !.sc[data].swapin_sio = NULL]
        callback == w2.sc[data].callback
    IN IF callback # NULL
       THEN IF ~(errflag <= 0) THEN Abort(w2)
            ELSE LET w3 == [w2 EXCEPT !.sc[data].callback = NULL]
                     w4 == InvokeSTCB(w3, data, w3.sc[data].callback_data,
                                      w3.sc[data].copy_buf, errflag)
                 IN [w4 EXCEPT !.statCounter = @ + 1]
       ELSE [w2 EXCEPT !.statCounter = @ + 1]

\* Variant: a locator that is already assigned is kept.
storeSwapInFileNotify_KeepsAssigned(w, data, errflag, h) ==
    LET x == w.sc[data].entry
    IN IF w.e[x].swap_filen >= 0 THEN w
       ELSE [w EXCEPT !.e[x].swap_filen = w.sio[h].swap_filen,
                      !.e[x].swap_dirn = w.sio[h].swap_dirn]

\* Variant: the notifier also delivers to the client when the chunk
\* arrived without error.
storeSwapInFileNotify_DeliversToClient(w, data, errflag, h) ==
    LET x == w.sc[data].entry
        w1 == [w EXCEPT !.e[x].swap_filen = w.sio[h].swap_filen,
                        !.e[x].swap_dirn = w.sio[h].swap_dirn]
        w2 == [w1 EXCEPT !.sc[data].callback = NULL]
    IN IF errflag = 0 /\ w1.sc[data].callback # NULL
       THEN InvokeSTCB(w2, data, w2.sc[data].callback_data,
                       w2.sc[data].copy_buf, errflag)
       ELSE w1

storeSwapInFileNotify(w, data, errflag, h) ==
    LET x == w.sc[data].entry
    IN [w EXCEPT !.e[x].swap_filen = w.sio[h].swap_filen,
                 !.e[x].swap_dirn = w.sio[h].swap_dirn]

\* The storage layer calls back through the pointers storeOpen was given.
Dispatch(w, name, data, errflag, h) ==
    IF name = CB_FileClosed THEN storeSwapInFileClosed(w, data, errflag, h)
    ELSE storeSwapInFileNotify(w, data, errflag, h)

\* ------------------------------------------------------------ storage layer
\* storeOpen(e, file_callback, callback, callback_data) ends in one of four
\* ways: "open", a read handle bound to the entry is returned;
\* "fail", no handle is created and NULL is returned; "closed" and
\* "closed_null", the open fails after the handle was created, and the close
\* callback fires with an error code before storeOpen returns the handle
\* ("closed") or NULL ("closed_null"). With no handle left the open fails.
storeOpen(w, x, file_callback, callback, callback_data, res) ==
    IF res = "fail" \/ FreeHandles(w) = {}
    THEN [w |-> w, ret |-> NULL]
    ELSE LET h == CHOOSE f \in FreeHandles(w) : \A g \in FreeHandles(w) : f <= g
             w1 == [w EXCEPT !.sio[h] =
                        [st |-> "open", e |-> x,
                         file_callback |-> file_callback,
                         callback |-> callback,
                         callback_data |-> callback_data,
                         swap_filen |-> -1, swap_dirn |-> -1]]
             w2 == Dispatch(w1, callback, callback_data, -1, h)
             w3 == IF w2.aborted THEN w2 ELSE [w2 EXCEPT !.sio[h] = ClosedSio]
         IN IF res = "open" THEN [w |-> w1, ret |-> h]
            ELSE [w |-> w3, ret |-> IF res = "closed" THEN h ELSE NULL]

\* storeSwapInStart without the ENTRY_VALIDATED test.
storeSwapInStart_NoValidatedTest(w, c, res) ==
    LET x == w.sc[c].entry
        ent == w.e[x]
    IN IF ent.mem_status # NOT_IN_MEMORY THEN Abort(w)
       ELSE IF ent.swap_status # SWAPOUT_WRITING /\ ent.swap_status # SWAPOUT_DONE
            THEN w
       ELSE IF ent.swap_filen < 0 THEN w
       ELSE IF ent.mem_obj = NULL THEN Abort(w)
       ELSE LET o == storeOpen(w, x, CB_FileNotify, CB_FileClosed, c, res)
                w1 == [o.w EXCEPT !.sc[c].swapin_sio = o.ret]
            IN cbdataLock(w1, w1.sc[c].swapin_sio)

\* storeSwapInStart with the swap_status test inverted by one state: only
\* SWAPOUT_DONE is rejected.
storeSwapInStart_WrongStatusTest(w, c, res) ==
    LET x == w.sc[c].entry
        ent == w.e[x]
    IN IF ent.mem_status # NOT_IN_MEMORY THEN Abort(w)
       ELSE IF ~EBIT_TEST(ent.flags, ENTRY_VALIDATED) THEN w
       ELSE IF ent.swap_status # SWAPOUT_WRITING /\ ent.swap_status # SWAPOUT_NONE
            THEN w
       ELSE IF ent.swap_filen < 0 THEN w
       ELSE IF ent.mem_obj = NULL THEN Abort(w)
       ELSE LET o == storeOpen(w, x, CB_FileNotify, CB_FileClosed, c, res)
                w1 == [o.w EXCEPT !.sc[c].swapin_sio = o.ret]
            IN cbdataLock(w1, w1.sc[c].swapin_sio)

\* storeSwapInStart opening the swap file twice and keeping the second handle.
storeSwapInStart_OpensTwice(w, c, res) ==
    LET x == w.sc[c].entry
        ent == w.e[x]
    IN IF ent.mem_status # NOT_IN_MEMORY THEN Abort(w)
       ELSE IF ~EBIT_TEST(ent.flags, ENTRY_VALIDATED) THEN w
       ELSE IF ent.swap_status # SWAPOUT_WRITING /\ ent.swap_status # SWAPOUT_DONE
            THEN w
       ELSE IF ent.swap_filen < 0 THEN w
       ELSE IF ent.mem_obj = NULL THEN Abort(w)
       ELSE LET o0 == storeOpen(w, x, CB_FileNotify, CB_FileClosed, c, res)
                o == storeOpen(o0.w, x, CB_FileNotify, CB_FileClosed, c, res)
                w1 == [o.w EXCEPT !.sc[c].swapin_sio = o.ret]
            IN cbdataLock(w1, w1.sc[c].swapin_sio)

storeSwapInStart(w, c, res) ==
    LET x == w.sc[c].entry
        ent == w.e[x]
    IN IF ent.mem_status # NOT_IN_MEMORY THEN Abort(w)
       ELSE IF ~EBIT_TEST(ent.flags, ENTRY_VALIDATED) THEN w
       ELSE IF ent.swap_status # SWAPOUT_WRITING /\ ent.swap_status # SWAPOUT_DONE
            THEN w
       ELSE IF ent.swap_filen < 0 THEN w
       ELSE IF ent.mem_obj = NULL THEN Abort(w)
       ELSE LET o == storeOpen(w, x, CB_FileNotify, CB_FileClosed, c, res)
                w1 == [o.w EXCEPT !.sc[c].swapin_sio = o.ret]
            IN cbdataLock(w1, w1.sc[c].swapin_sio)

\* ------------------------------------------------------------ actions
Commit(w) ==
    /\ e' = w.e
    /\ sc' = w.sc
    /\ sio' = w.sio
    /\ locks' = w.locks
    /\ statCounter' = w.statCounter
    /\ calls' = w.calls
    /\ aborted' = w.aborted
    /\ UNCHANGED authvars

\* An entry starts as a new object (no durable copy, in memory or not) or
\* as one rebuilt from disk: swapped out with its locator, not in memory and
\* not validated yet.
Init ==
    /\ \E ms \in [Entries -> {NOT_IN_MEMORY, IN_MEMORY}],
          mo \in [Entries -> BOOLEAN],
          rebuilt \in [Entries -> BOOLEAN] :
          /\ \A x \in Entries : ms[x] = IN_MEMORY => mo[x] /\ ~rebuilt[x]
          /\ e = [x \in Entries |->
                    [mem_status |-> ms[x], flags |-> {},
                     swap_status |-> IF rebuilt[x] THEN SWAPOUT_DONE
                                     ELSE SWAPOUT_NONE,
                     swap_filen |-> IF rebuilt[x] THEN 0 ELSE -1,
                     swap_dirn |-> IF rebuilt[x] THEN 0 ELSE -1,
                     mem_obj |-> IF mo[x] THEN x ELSE NULL]]
    /\ sc = [c \in Clients |->
               [entry |-> 1, callback |-> NULL, callback_data |-> 10 + c,
                copy_buf |-> 20 + c, swapin_sio |-> NULL]]
    /\ sio = [h \in Handles |-> NoSio]
    /\ locks = [h \in Handles |-> 0]
    /\ statCounter = 0
    /\ calls = 0
    /\ aborted = FALSE
    /\ authbasic_initialised = 0
    /\ authenticateProgram = NULL
    /\ basicauthenticators = NoHelper
    /\ authOps = <<>>

\* A caller invokes storeSwapInStart(sc).
SwapInStart(c) ==
    /\ ~aborted
    /\ \E res \in OpenResults :
       \E plan \in PlansWhen(res \in {"closed", "closed_null"}) :
          Commit(storeSwapInStart([World EXCEPT !.stcb = plan], c, res))

\* ---- the request-handling layer (client read protocol)
\* scheduleRead for a range that is on disk and not in memory: the request
\* becomes pending and the client's swap-in handle is initiated or reused.
storeClientCopy(c) ==
    /\ ~aborted
    /\ sc[c].callback = NULL
    /\ e[sc[c].entry].swap_status \in {SWAPOUT_WRITING, SWAPOUT_DONE}
    /\ e[sc[c].entry].mem_status = NOT_IN_MEMORY
    /\ \E res \in OpenResults :
       \E plan \in PlansWhen(res \in {"closed", "closed_null"}) :
          LET w1 == [World EXCEPT !.sc[c].callback = STCB_fn, !.stcb = plan]
          IN Commit(IF w1.sc[c].swapin_sio = NULL
                    THEN storeSwapInStart(w1, c, res)
                    ELSE w1)

\* cancel(client): the client drops its pending request. The store_client
\* stays the callback data of the handles opened for it.
storeUnregister(c) ==
    /\ ~aborted
    /\ sc[c].callback # NULL
    /\ sc' = [sc EXCEPT ![c].callback = NULL]
    /\ UNCHANGED <<e, sio, locks, statCounter, calls, aborted, authvars>>

\* ---- the producer, the swap-out state machine and validation
storeEntryValidate(x) ==
    /\ ~aborted
    /\ ~EBIT_TEST(e[x].flags, ENTRY_VALIDATED)
    /\ e' = [e EXCEPT ![x].flags = @ \cup {ENTRY_VALIDATED}]
    /\ UNCHANGED <<sc, sio, locks, statCounter, calls, aborted, authvars>>

\* NONE -> WRITING: the entry is to be persisted by a new write, whose
\* locator is not assigned yet.
storeSwapOutStart(x) ==
    /\ ~aborted
    /\ e[x].swap_status = SWAPOUT_NONE
    /\ e' = [e EXCEPT ![x].swap_status = SWAPOUT_WRITING,
                      ![x].swap_filen = -1, ![x].swap_dirn = -1]
    /\ UNCHANGED <<sc, sio, locks, statCounter, calls, aborted, authvars>>

\* The write handle is open: the storage locator hands out (dir, file).
storeSwapOutFileOpened(x, f, d) ==
    /\ ~aborted
    /\ e[x].swap_status = SWAPOUT_WRITING
    /\ e[x].swap_filen < 0
    /\ e' = [e EXCEPT ![x].swap_filen = f, ![x].swap_dirn = d]
    /\ UNCHANGED <<sc, sio, locks, statCounter, calls, aborted, authvars>>

\* The readers waiting on a swap-in read of entry x are failed explicitly:
\* every read handle open on x is closed with the error code, lowest handle
\* first, and its close callback runs.
RECURSIVE FailReaders(_, _, _, _)
FailReaders(w, x, errflag, plan) ==
    LET hs == {h \in Handles : w.sio[h].st = "open" /\ w.sio[h].e = x}
    IN IF w.aborted \/ hs = {} THEN w
       ELSE LET h == CHOOSE g \in hs : \A g2 \in hs : g <= g2
                w1 == Dispatch([w EXCEPT !.stcb = plan], w.sio[h].callback,
                               w.sio[h].callback_data, errflag, h)
                w2 == IF w1.aborted THEN w1
                      ELSE [w1 EXCEPT !.sio[h] = ClosedSio]
            IN FailReaders(w2, x, errflag, plan)

\* some reader of entry x has a handle open and a request pending
ReaderWaits(x) ==
    \E h \in Handles :
        /\ sio[h].st = "open" /\ sio[h].e = x
        /\ sc[sio[h].callback_data].callback # NULL

\* The write handle closes. WRITING -> DONE when the final write completed
\* (errflag = 0) on an assigned locator. WRITING -> NONE on a write failure
\* (a negative error code):
\* the entry reverts and the readers waiting on a swap-in read are failed;
\* plan is what their callbacks do (return, or schedule the next read).
storeSwapOutFileClosed(x, errflag) ==
    /\ ~aborted
    /\ e[x].swap_status = SWAPOUT_WRITING
    /\ IF errflag = 0
       THEN /\ e[x].swap_filen >= 0
            /\ e' = [e EXCEPT ![x].swap_status = SWAPOUT_DONE]
            /\ UNCHANGED <<sc, sio, locks, statCounter, calls, aborted, authvars>>
       ELSE \E plan \in PlansWhen(ReaderWaits(x)) \cap {"return", "open"} :
               Commit(FailReaders([World EXCEPT
                                      !.e[x].swap_status = SWAPOUT_NONE],
                                  x, errflag, plan))

\* ---- the storage layer's completions
\* The storage layer writes the locator the handle really uses into
\* sio->swap_filen and sio->swap_dirn
Report(w, h, f, d) ==
    [w EXCEPT !.sio[h].swap_filen = f, !.sio[h].swap_dirn = d]

\* A chunk arrives: the handle reports the locator it really uses and calls
\* the file callback. Nothing else reads the handle's locator, so it is kept
\* only while it is reported.
storeIONotify(h, f, d, errflag) ==
    /\ ~aborted
    /\ sio[h].st = "open"
    /\ LET w1 == Report(World, h, f, d)
           w2 == Dispatch(w1, w1.sio[h].file_callback,
                          w1.sio[h].callback_data, errflag, h)
       IN Commit(Report(w2, h, -1, -1))

\* The handle closes, exactly once, with its final status: the close
\* callback runs and the handle is gone. plan is what the client callback
\* does if the close callback invokes it.
storeIOCloseWith(h, errflag, plan) ==
    /\ ~aborted
    /\ sio[h].st = "open"
    /\ LET w1 == Dispatch([World EXCEPT !.stcb = plan], sio[h].callback,
                          sio[h].callback_data, errflag, h)
       IN Commit(IF w1.aborted THEN w1 ELSE [w1 EXCEPT !.sio[h] = ClosedSio])

storeIOClose(h, errflag) ==
    \E plan \in PlansWhen(sio[h].callback_data # NULL
                           /\ sc[sio[h].callback_data].callback # NULL) :
        storeIOCloseWith(h, errflag, plan)

Next ==
    \/ \E c \in Clients : SwapInStart(c)
    \/ \E c \in Clients : storeClientCopy(c)
    \/ \E c \in Clients : storeUnregister(c)
    \/ \E x \in Entries : storeEntryValidate(x)
    \/ \E x \in Entries : storeSwapOutStart(x)
    \/ \E x \in Entries, f \in FileNos, d \in DirNos : storeSwapOutFileOpened(x, f, d)
    \/ \E x \in Entries, ef \in {-1, 0} : storeSwapOutFileClosed(x, ef)
    \/ \E h \in Handles, loc \in SioLocators :
          storeIONotify(h, loc[1], loc[2], 0)
    \/ \E h \in Handles, ef \in ErrFlags : storeIOClose(h, ef)

Spec == Init /\ [][Next]_vars

\* I/O completion is fair: a handle that stays open is eventually closed by
\* the storage layer. The condition is put on the completion that reports
\* success to a client whose callback returns; it is enabled exactly when
\* some open handle can be closed.
FairSpec == Spec /\ WF_vars(\E h \in Handles : storeIOCloseWith(h, 0, "return"))

\* ================================================================ claims
EntryOf(c) == e[sc[c].entry]
Validated(c) == EBIT_TEST(EntryOf(c).flags, ENTRY_VALIDATED)
SwapStatusOk(c) == EntryOf(c).swap_status \in {SWAPOUT_WRITING, SWAPOUT_DONE}
\* the open handles whose callback data is store_client c
OpenFor(c) == {h \in Handles : sio[h].st = "open" /\ sio[h].callback_data = c}

\* ---------------------------------------------------------------- C1
\* C1: whenever storeSwapInStart is invoked on a client whose
\* entry violates a precondition (mem_status != NOT_IN_MEMORY, not validated,
\* swap_status outside {WRITING, DONE}, swap_filen < 0), the call aborts with
\* an assertion failure rather than returning normally.
C1_EveryViolationAborts ==
    ~aborted =>
        \A c \in Clients, res \in OpenResults :
            (\/ EntryOf(c).mem_status # NOT_IN_MEMORY
             \/ ~Validated(c)
             \/ ~SwapStatusOk(c)
             \/ EntryOf(c).swap_filen < 0)
            => storeSwapInStart(World, c, res).aborted

\* ---------------------------------------------------------------- C2
\* C2: a call of storeSwapInStart on a client whose entry has ENTRY_VALIDATED
\* unset opens no handle, leaves sc->swapin_sio unchanged, takes no cbdata
\* lock and leaves the entry's swap_filen, swap_dirn and swap_status
\* unchanged.
C2_NotValidatedNotSwappedIn ==
    ~aborted =>
        \A c \in Clients, res \in OpenResults :
            ~Validated(c) =>
                LET r == storeSwapInStart(World, c, res)
                IN /\ r.sio = sio
                   /\ r.sc[c].swapin_sio = sc[c].swapin_sio
                   /\ r.locks = locks
                   /\ r.e = e

\* A read was scheduled on an entry that has a locator and is being written
\* but is not validated, and no handle was ever opened.
C2_Witness ==
    \E c \in Clients :
        /\ ~Validated(c)
        /\ EntryOf(c).swap_status = SWAPOUT_WRITING
        /\ EntryOf(c).swap_filen >= 0
        /\ sc[c].callback # NULL
        /\ \A h \in Handles : sio[h].st = "free" /\ locks[h] = 0

\* ---------------------------------------------------------------- C3
\* the clients waiting on a swap-in read of entry x
WaitingReaders(x) ==
    {c \in Clients : /\ sc[c].callback # NULL
                     /\ \E h \in Handles : /\ sio[h].st = "open"
                                            /\ sio[h].e = x
                                            /\ sio[h].callback_data = c}

C4_EveryCallGetsCloseCallback ==
    (~aborted /\ FreeHandles(World) # {}) =>
        \A c \in Clients :
            LET r == storeSwapInStart(World, c, "open")
            IN \/ r.aborted
               \/ \E h \in FreeHandles(World) :
                     /\ r.sio[h].st = "open"
                     /\ r.sio[h].callback = CB_FileClosed
                     /\ r.sio[h].callback_data = c

\* ---------------------------------------------------------------- C5
\* the open handles whose close callback is storeSwapInFileClosed
SwapInHandles == {h \in Handles : sio[h].st = "open" /\ sio[h].callback = CB_FileClosed}

\* C5: when storeSwapInFileClosed runs for a client with a pending callback,
\* for every errflag the close can carry, the callback is invoked exactly
\* once with the client's callback_data, its copy_buf and that errflag;
\* sc->callback is already NULL when the callback runs, and afterwards
\* sc->swapin_sio is NULL.
C5_PendingCallbackDeliveredOnce ==
    ~aborted =>
        \A h \in SwapInHandles, ef \in ErrFlags :
            LET c == sio[h].callback_data
                r == storeSwapInFileClosed(World, c, ef, h)
            IN sc[c].callback # NULL =>
                  /\ r.calls = calls + 1
                  /\ r.lastcall.sc = c
                  /\ r.lastcall.data = sc[c].callback_data
                  /\ r.lastcall.buf = sc[c].copy_buf
                  /\ r.lastcall.errflag = ef
                  /\ r.lastcall.sc_callback = NULL
                  /\ r.sc[c].callback = NULL
                  /\ r.sc[c].swapin_sio = NULL

\* ---------------------------------------------------------------- C6
\* C6: when storeSwapInFileClosed runs for a client that has no pending
\* callback, for every errflag (success included), it invokes no client
\* callback and does not abort: it unlocks the handle, sets sc->swapin_sio
\* to NULL and counts the swap-in, and changes nothing else. And a step of
\* the system invokes a client callback only if some client had a callback
\* pending before the step or the step itself schedules the read, so a
\* request that was cancelled is never delivered.
C6_NoCallbackOnlyCleanup ==
    /\ [](~aborted =>
            \A h \in SwapInHandles, ef \in ErrFlags :
                LET c == sio[h].callback_data
                    r == storeSwapInFileClosed(World, c, ef, h)
                IN sc[c].callback = NULL =>
                      /\ ~r.aborted
                      /\ r.calls = calls
                      /\ r.lastcall = NoCall
                      /\ r.locks = [locks EXCEPT ![h] = @ - 1]
                      /\ r.sc = [sc EXCEPT ![c].swapin_sio = NULL]
                      /\ r.statCounter = statCounter + 1
                      /\ r.e = e
                      /\ r.sio = sio)
    /\ [][calls' # calls =>
             \E c \in Clients : sc[c].callback # NULL \/ storeClientCopy(c)
         ]_vars

\* A swap-in handle was opened for a client and closed, and no client
\* callback has ever been invoked: the close found no pending callback.
C6_Witness ==
    /\ ~aborted
    /\ statCounter >= 1
    /\ calls = 0
    /\ \E c \in Clients : sc[c].callback = NULL /\ sc[c].swapin_sio = NULL

\* ---------------------------------------------------------------- C7
\* C7: for every errflag the storage layer can pass to storeSwapInFileClosed,
\* a positive error code included, the close path does not abort and invokes
\* the pending client callback with that errflag.
C7_FailureDeliveredAsErrflag ==
    ~aborted =>
        \A h \in SwapInHandles, ef \in ErrFlags :
            LET c == sio[h].callback_data
                r == storeSwapInFileClosed(World, c, ef, h)
            IN sc[c].callback # NULL =>
                  /\ ~r.aborted
                  /\ r.calls = calls + 1
                  /\ r.lastcall.errflag = ef

\* ---------------------------------------------------------------- C8
\* C8: under fair I/O completion every pending client request is eventually
\* answered (its callback is consumed), unless the process has aborted; a
\* request whose swap-in could not be started is not left pending forever.
C8_PendingEventuallyAnswered ==
    \A c \in Clients :
        (sc[c].callback # NULL /\ ~aborted) ~> (sc[c].callback = NULL \/ aborted)

\* ---------------------------------------------------------------- C9
DoneOk(ent) ==
    ent.swap_status = SWAPOUT_DONE =>
        ent.swap_filen >= 0 /\ EBIT_TEST(ent.flags, ENTRY_VALIDATED)

\* C9: in every reachable state an entry whose swap_status is DONE has its
\* locator set (swap_filen >= 0) and is validated, and every operation of
\* the swap-in path keeps it so: storeSwapInStart, storeSwapInFileClosed
\* and storeSwapInFileNotify, run for any open swap-in handle with whatever
\* locator the handle holds.
C9_DoneHasLocatorAndValidated ==
    /\ \A x \in Entries : DoneOk(e[x])
    /\ ~aborted =>
          \A h \in SwapInHandles, f \in SioFileNos, d \in SioDirNos,
             ef \in ErrFlags :
              LET c == sio[h].callback_data
                  x == sc[c].entry
                  n == storeSwapInFileNotify(Report(World, h, f, d), c, ef, h)
                  k == storeSwapInFileClosed(World, c, ef, h)
                  s == storeSwapInStart(World, c, "open")
              IN DoneOk(e[x]) =>
                    DoneOk(n.e[x]) /\ DoneOk(k.e[x]) /\ DoneOk(s.e[x])

\* ---------------------------------------------------------------- C10
\* the open handles bound to entry x
OpenOn(x) == {h \in Handles : sio[h].st = "open" /\ sio[h].e = x}

\* C10 (as claimed): in every reachable state at most one swap-in handle is
\* open on an entry.
C10_AtMostOneHandlePerEntry ==
    \A x \in Entries : Cardinality(OpenOn(x)) <= 1

\* C10 (amended): a call of storeSwapInStart opens at most one handle; the
\* handle is bound to the caller's entry, has the calling store_client as
\* callback data, is locked once and is the one sc->swapin_sio refers to;
\* the handles that were open stay as they were. Nothing limits the number
\* of handles per entry: each store_client of the entry opens its own.
C10_OneHandlePerCall ==
    ~aborted =>
        \A c \in Clients, res \in OpenResults :
            LET r == storeSwapInStart(World, c, res)
                new == OpenHandles(r) \ OpenHandles(World)
            IN ~r.aborted =>
                  /\ Cardinality(new) <= 1
                  /\ \A h \in new :
                        /\ r.sio[h].e = sc[c].entry
                        /\ r.sio[h].callback_data = c
                        /\ r.sc[c].swapin_sio = h
                        /\ r.locks[h] = 1
                  /\ \A h \in OpenHandles(World) : r.sio[h] = sio[h]

\* Two store_clients of one entry have each their own open swap-in handle.
C10_Witness ==
    \E h1, h2 \in Handles :
        /\ ~aborted
        /\ h1 # h2
        /\ sio[h1].st = "open" /\ sio[h2].st = "open"
        /\ sio[h1].e = sio[h2].e
        /\ sio[h1].callback_data # sio[h2].callback_data
        /\ sc[sio[h1].callback_data].swapin_sio = h1
        /\ sc[sio[h2].callback_data].swapin_sio = h2

\* ---------------------------------------------------------------- C11
\* C11: a call of storeSwapInStart on a client whose sc->swapin_sio is
\* already non-NULL opens no second handle, leaves sc->swapin_sio and every
\* lock count as they were and leaves the entry unchanged; and in every
\* reachable state a client has at most one open swap-in handle.
C11_SecondReadRejected ==
    ~aborted =>
        \A c \in Clients :
            /\ Cardinality(OpenFor(c)) <= 1
            /\ \A res \in OpenResults :
                  sc[c].swapin_sio # NULL =>
                      LET r == storeSwapInStart(World, c, res)
                      IN r.aborted
                         \/ /\ OpenHandles(r) = OpenHandles(World)
                            /\ r.sc[c].swapin_sio = sc[c].swapin_sio
                            /\ r.locks = locks
                            /\ r.e = e

\* ---------------------------------------------------------------- C13
\* the entry of client c passes every test of storeSwapInStart, so that a
\* call reaches storeOpen
ReachesOpen(c) ==
    /\ EntryOf(c).mem_status = NOT_IN_MEMORY
    /\ Validated(c)
    /\ SwapStatusOk(c)
    /\ EntryOf(c).swap_filen >= 0
    /\ EntryOf(c).mem_obj # NULL

\* C13: when storeOpen fails inside storeSwapInStart, whether it returns no
\* handle or fires storeSwapInFileClosed before it returns, the call does not
\* abort, sc->swapin_sio is NULL afterwards, no handle is left open, the lock
\* count of every handle is what it was (nothing was locked or unlocked on a
\* handle that is closed), and a pending request has been answered with a
\* negative error code.
C13_OpenFailureReported ==
    ~aborted =>
        \A c \in Clients, res \in OpenResults \ {"open"} :
            (ReachesOpen(c) /\ sc[c].swapin_sio = NULL) =>
                LET r == storeSwapInStart(World, c, res)
                IN /\ ~r.aborted
                   /\ r.sc[c].swapin_sio = NULL
                   /\ OpenHandles(r) = OpenHandles(World)
                   /\ r.locks = locks
                   /\ sc[c].callback # NULL =>
                         /\ r.calls = calls + 1
                         /\ r.lastcall.errflag < 0
                         /\ r.sc[c].callback = NULL

\* ---------------------------------------------------------------- C14
\* C14: the lock count of a handle is never negative; it is 1 in every state
\* in which the handle is open (locked at registration, not yet unlocked) and
\* 0 before the handle is opened and after its close callback has fired, so
\* that the lock and the unlock happen once each and in this order.
C14_LockUnlockBalanced ==
    ~aborted =>
        \A h \in Handles :
            /\ locks[h] >= 0
            /\ sio[h].st = "open" => locks[h] = 1
            /\ sio[h].st # "open" => locks[h] = 0

\* ---------------------------------------------------------------- C15
\* C15: in every reachable state, the store_client of every open swap-in
\* handle refers to that handle through sc->swapin_sio (the pointer is not
\* cleared or replaced before the close callback), and a non-NULL
\* sc->swapin_sio refers to an open handle (never to one whose close callback
\* has run).
C15_SwapinSioTracksHandle ==
    ~aborted =>
        /\ \A h \in SwapInHandles : sc[sio[h].callback_data].swapin_sio = h
        /\ \A c \in Clients :
              sc[c].swapin_sio # NULL => sio[sc[c].swapin_sio].st = "open"

\* ---------------------------------------------------------------- C16
\* a close of handle h that finds a request of its client pending, while the
\* client's entry passes every test of storeSwapInStart and a handle is free
ReentrantCase(h) ==
    /\ ~aborted
    /\ h \in SwapInHandles
    /\ sc[sio[h].callback_data].callback # NULL
    /\ ReachesOpen(sio[h].callback_data)
    /\ FreeHandles(World) # {}

\* C16: when the client callback invoked from storeSwapInFileClosed
\* schedules the next read of the same client (it registers a new callback
\* and calls storeSwapInStart, whose storeOpen succeeds), then after
\* storeSwapInFileClosed has returned the new sc->callback is set and
\* sc->swapin_sio refers to the new handle, which is open, locked once and
\* bound to the client; the callback itself ran with both fields cleared,
\* and the closed handle was unlocked and the swap-in counted.
C16_CloseToleratesReentrancy ==
    \A h \in Handles, ef \in {x \in ErrFlags : x <= 0} :
        ReentrantCase(h) =>
            LET c == sio[h].callback_data
                r == storeSwapInFileClosed([World EXCEPT !.stcb = "open"],
                                           c, ef, h)
                n == r.sc[c].swapin_sio
            IN /\ ~r.aborted
               /\ r.calls = calls + 1
               /\ r.lastcall.sc_callback = NULL
               /\ r.lastcall.sc_swapin_sio = NULL
               /\ r.sc[c].callback = STCB_fn
               /\ n \in FreeHandles(World)
               /\ r.sio[n].st = "open"
               /\ r.sio[n].callback_data = c
               /\ r.locks[n] = locks[n] + 1
               /\ r.locks[h] = locks[h] - 1
               /\ r.statCounter = statCounter + 1

\* A handle is about to close for a client whose request is pending, and the
\* client's callback can start the next read on a free handle.
C16_Witness ==
    \E h \in Handles :
        /\ ReentrantCase(h)
        /\ sc[sio[h].callback_data].swapin_sio = h
        /\ locks[h] = 1

\* ---------------------------------------------------------------- C17
\* C17 (as claimed): once an entry's locator is assigned, no call of
\* storeSwapInStart, storeSwapInFileNotify or storeSwapInFileClosed changes
\* swap_filen or swap_dirn, whatever locator the read handle reports.
C17_LocatorImmutable ==
    ~aborted =>
        \A h \in SwapInHandles, f \in SioFileNos, d \in SioDirNos, ef \in ErrFlags :
            LET c == sio[h].callback_data
                x == sc[c].entry
                n == storeSwapInFileNotify(Report(World, h, f, d), c, ef, h)
                k == storeSwapInFileClosed(World, c, ef, h)
                s == storeSwapInStart(World, c, "open")
            IN e[x].swap_filen >= 0 =>
                  /\ n.e[x].swap_filen = e[x].swap_filen
                  /\ n.e[x].swap_dirn = e[x].swap_dirn
                  /\ k.e[x] = e[x]
                  /\ s.e[x] = e[x]

\* C17 (amended): storeSwapInStart and storeSwapInFileClosed never change an
\* entry; storeSwapInFileNotify replaces the entry's swap_filen and
\* swap_dirn by the locator the handle reports, so the locator of an entry
\* changes exactly when a handle reports one that differs from it.
C17_OnlyNotifyChangesLocator ==
    ~aborted =>
        /\ \A c \in Clients, res \in OpenResults :
              storeSwapInStart(World, c, res).e = e
        /\ \A h \in SwapInHandles, f \in SioFileNos, d \in SioDirNos, ef \in ErrFlags :
              LET c == sio[h].callback_data
                  x == sc[c].entry
                  n == storeSwapInFileNotify(Report(World, h, f, d), c, ef, h)
                  k == storeSwapInFileClosed(World, c, ef, h)
              IN /\ k.e = e
                 /\ n.e = [e EXCEPT ![x].swap_filen = f, ![x].swap_dirn = d]
                 /\ (n.e # e) <=> (f # e[x].swap_filen \/ d # e[x].swap_dirn)

\* The entry's locator is assigned (file number 0), a swap-in handle is open
\* on it and can report file number 1.
C17_Witness ==
    \E h \in SwapInHandles :
        /\ ~aborted
        /\ e[sc[sio[h].callback_data].entry].swap_filen = 0
        /\ e[sc[sio[h].callback_data].entry].swap_status = SWAPOUT_WRITING
        /\ 1 \in FileNos


\* ---------------------------------------------------------------- C18
\* C18: storeSwapInFileNotify only updates bookkeeping: whatever its errflag,
\* the result is the world it was called in with the entry's swap_filen and
\* swap_dirn set to the handle's values and nothing else changed; no client
\* callback is invoked, and sc, the lock counts, the handles, the entry's
\* swap_status, mem_status and flags and the swap-in counter are the same.
C18_NotifyOnlyBookkeeping ==
    ~aborted =>
        \A h \in SwapInHandles, f \in SioFileNos, d \in SioDirNos, ef \in ErrFlags :
            LET c == sio[h].callback_data
                x == sc[c].entry
                w == Report(World, h, f, d)
                n == storeSwapInFileNotify(w, c, ef, h)
            IN /\ n = [w EXCEPT !.e[x].swap_filen = f, !.e[x].swap_dirn = d]
               /\ n.calls = calls /\ n.lastcall = NoCall
               /\ n.sc = sc /\ n.locks = locks /\ n.sio = w.sio
               /\ n.statCounter = statCounter /\ ~n.aborted
               /\ n.e[x].swap_status = e[x].swap_status
               /\ n.e[x].mem_status = e[x].mem_status
               /\ n.e[x].flags = e[x].flags
               /\ n = storeSwapInFileNotify(w, c, 0, h)

\* A swap-in handle is open while its client still waits for the callback,
\* so a notifier that delivered data would be seen.
C18_Witness ==
    \E h \in SwapInHandles :
        /\ ~aborted
        /\ sc[sio[h].callback_data].callback # NULL
        /\ sc[sio[h].callback_data].swapin_sio = h
        /\ locks[h] = 1


\* ---------------------------------------------------------------- C19
\* C19: every run of storeSwapInFileClosed, with or without a pending
\* callback and for every errflag the close can carry, completes and
\* increments statCounter.swap.ins by exactly one (the callback here returns
\* without scheduling another read, so exactly one run is counted), and
\* storeSwapInStart and storeSwapInFileNotify leave the counter unchanged.
C19_CounterCountsCloses ==
    ~aborted =>
        /\ \A h \in SwapInHandles, ef \in ErrFlags :
              LET k == storeSwapInFileClosed(World, sio[h].callback_data, ef, h)
              IN ~k.aborted /\ k.statCounter = statCounter + 1
        /\ \A h \in SwapInHandles, f \in SioFileNos, d \in SioDirNos, ef \in ErrFlags :
              storeSwapInFileNotify(Report(World, h, f, d), sio[h].callback_data,
                                    ef, h).statCounter = statCounter
        /\ \A c \in Clients :
              storeSwapInStart(World, c, "open").statCounter = statCounter


\* ---------------------------------------- src/src/auth/basic/Config.cc
\* The Basic scheme's configuration object with the file's two globals.
\* The swap-in variables play no part in it.
swapvars == <<e, sc, sio, locks, statCounter, calls, aborted>>

AuthCfg ==
    [authbasic_initialised |-> authbasic_initialised,
     authenticateProgram |-> authenticateProgram,
     basicauthenticators |-> basicauthenticators]

\* Auth::Basic::Config::active()
active(a) == a.authbasic_initialised = 1

\* helperShutdown(hlp): the helper's servers are told to stop.
helperShutdown(hlp) == [hlp EXCEPT !.running = FALSE]

\* Variant: init marks the scheme initialised whether or not a program is
\* configured.
init_WithoutProgramTest(a) ==
    LET a1 == [a EXCEPT !.authbasic_initialised = 1]
    IN IF a.authenticateProgram # NULL
       THEN [a1 EXCEPT !.basicauthenticators =
                [allocated |-> TRUE, cmdline |-> a.authenticateProgram,
                 running |-> TRUE]]
       ELSE a1

\* Auth::Basic::Config::init(): with a program configured, set the flag,
\* create the helper if there is none, give it the command line and open
\* its servers; without one, do nothing.
init(a) ==
    IF a.authenticateProgram # NULL
    THEN LET a1 == [a EXCEPT !.authbasic_initialised = 1]
             a2 == IF a1.basicauthenticators = NoHelper
                   THEN [a1 EXCEPT !.basicauthenticators = NewHelper]
                   ELSE a1
             a3 == [a2 EXCEPT !.basicauthenticators.cmdline =
                                  a.authenticateProgram]
         IN [a3 EXCEPT !.basicauthenticators.running = TRUE]
    ELSE a

\* Auth::Basic::Config::done(): clear the flag, shut down and delete the
\* helper, destroy the program wordlist.
done(a) ==
    LET a1 == [a EXCEPT !.authbasic_initialised = 0]
        a2 == IF a1.basicauthenticators # NoHelper
              THEN [a1 EXCEPT !.basicauthenticators = helperShutdown(@)]
              ELSE a1
        a3 == [a2 EXCEPT !.basicauthenticators = NoHelper]
    IN IF a3.authenticateProgram # NULL
       THEN [a3 EXCEPT !.authenticateProgram = NULL]
       ELSE a3

\* Auth::Basic::Config::rotateHelpers(): schedule closure of the helpers.
rotateHelpers(a) ==
    IF a.basicauthenticators # NoHelper
    THEN [a EXCEPT !.basicauthenticators = helperShutdown(@)]
    ELSE a

\* Auth::Basic::Config::parse() of a "program" directive: handed on to the
\* base class, which stores the command line in authenticateProgram.
parse(a) == [a EXCEPT !.authenticateProgram = PROGRAM]

AuthCommit(a, op) ==
    /\ Len(authOps) < MaxAuthOps
    /\ authbasic_initialised' = a.authbasic_initialised
    /\ authenticateProgram' = a.authenticateProgram
    /\ basicauthenticators' = a.basicauthenticators
    /\ authOps' = Append(authOps, op)
    /\ UNCHANGED swapvars

\* Every operation is recorded with what it found in authenticateProgram.
AuthOp(name) == [op |-> name, prog |-> authenticateProgram # NULL]

ConfigParse == AuthCommit(parse(AuthCfg), AuthOp("parse"))
ConfigInit == AuthCommit(init(AuthCfg), AuthOp("init"))
ConfigDone == AuthCommit(done(AuthCfg), AuthOp("done"))
ConfigRotateHelpers == AuthCommit(rotateHelpers(AuthCfg), AuthOp("rotateHelpers"))

AuthNext ==
    \/ ConfigParse
    \/ ConfigInit
    \/ ConfigDone
    \/ ConfigRotateHelpers

AuthSpec == Init /\ [][AuthNext]_vars

\* ---------------------------------------------------------------- C20
\* Some init() ran with authenticateProgram set and no done() ran after it.
InitSinceDone ==
    \E i \in 1..Len(authOps) :
        /\ authOps[i].op = "init"
        /\ authOps[i].prog
        /\ \A j \in (i + 1)..Len(authOps) : authOps[j].op # "done"

\* C20: after any sequence of operations on the Basic scheme, active() is
\* true exactly when some init() ran with authenticateProgram set and no
\* done() has run since; done() always makes active() false, and an init()
\* with no authenticateProgram leaves active() unchanged.
C20_ActiveReflectsLifecycle ==
    /\ active(AuthCfg) <=> InitSinceDone
    /\ ~active(done(AuthCfg))
    /\ authenticateProgram = NULL => active(init(AuthCfg)) = active(AuthCfg)

\* The scheme is active although a done() ran earlier and an init() found
\* no program: a later init() with a program set the flag again.
C20_Witness ==
    /\ active(AuthCfg)
    /\ \E i \in 1..Len(authOps) : authOps[i].op = "done"
    /\ \E i \in 1..Len(authOps) : authOps[i].op = "init" /\ ~authOps[i].prog
====
